---- MODULE Spec2Model ----
(***************************************************************************)
(* A model of tapzero (src/src/index.ts, src/unnamed/part_000): the        *)
(* TestRunner registry and its deferred run() coroutine, the Test          *)
(* assertion state machine, and the TAP lines handed to the report sink.   *)
(*                                                                         *)
(* The user's code (test functions, timers they leave behind, top-level    *)
(* registration) is the environment: it may call add(), onFinish(), and,   *)
(* on every Test whose function has been invoked, plan(), comment() and    *)
(* the eight assertion methods, at any moment.                             *)
(***************************************************************************)
EXTENDS Integers, Sequences, FiniteSets, TLC

\* ---------------------------------------------------------------- bounds
MaxTests == 2      \* Tests constructed by add() in one behaviour
MaxAsserts == 2    \* assertion calls that reach the report sink
MaxVocab == 1      \* the same, where the whole vocabulary is used (SpecVocab)
MaxPlan == 1       \* largest n passed to plan(n)

Names == {"t1"}
Msgs == {"", "msg"}          \* "" stands for an absent (or empty) msg: both are falsy
NULL == -1                   \* the null of _planned / _actual

\* ---------------------------------------------------------------- values
\* JavaScript values that the modelled calls pass to the assertions.
Undefined == [k |-> "undefined"]
Null == [k |-> "null"]
Num(n) == [k |-> "num", v |-> n]
Str(s) == [k |-> "str", v |-> s]
Bool(b) == [k |-> "bool", v |-> b]
Err(m) == [k |-> "error", message |-> m]
RegExp(src) == [k |-> "regexp", source |-> src, flags |-> "", ref |-> 0]
\* NaN; and the values with an identity (ref): two of them are the same value
\* (===) only if they are the same object
NaN == [k |-> "nan"]
RegExpF(src, flags, ref) == [k |-> "regexp", source |-> src, flags |-> flags, ref |-> ref]
Fun(ret, ref) == [k |-> "fun", ret |-> ret, ref |-> ref]          \* () => ret
Arr(items, ref) == [k |-> "array", items |-> items, ref |-> ref]
\* an object literal: props maps its own keys to their values
Obj(props, ref) == [k |-> "object", props |-> props, ref |-> ref]
NoProps == [key \in {} |-> Undefined]

\* !!v
truthy(v) ==
    CASE v.k = "undefined" -> FALSE
      [] v.k = "null" -> FALSE
      [] v.k = "bool" -> v.v
      [] v.k = "num" -> v.v # 0
      [] v.k = "str" -> v.v # ""
      [] OTHER -> TRUE

\* ToNumber on the strings of the model ("x" is not numeric: NaN, here NULL)
StrToNum(s) == CASE s = "1" -> 1 [] s = "2" -> 2 [] s = "" -> 0 [] OTHER -> NULL

\* a == b (loose equality) on the primitives of the model
looseEq(a, b) ==
    CASE a.k = b.k /\ a.k \in {"num", "str", "bool"} -> a.v = b.v
      [] a.k \in {"undefined", "null"} -> b.k \in {"undefined", "null"}
      [] b.k \in {"undefined", "null"} -> FALSE
      [] a.k = "num" /\ b.k = "str" -> StrToNum(b.v) # NULL /\ StrToNum(b.v) = a.v
      [] a.k = "str" /\ b.k = "num" -> StrToNum(a.v) # NULL /\ StrToNum(a.v) = b.v
      [] OTHER -> FALSE

\* a === b
strictEq(a, b) == a.k = b.k /\ a.k # "nan" /\ a = b
\* a && typeof a === 'object'
IsObject(v) == v.k \in {"array", "regexp", "object", "error"}
\* a.valueOf !== Object.prototype.valueOf, a.toString !== Object.prototype.toString
OwnValueOf(a) == "valueOf" \in DOMAIN a.props
OwnToString(a) == "toString" \in DOMAIN a.props
\* a.valueOf(), a.toString(): the object's own function, or Object.prototype's
CallValueOf(a) == IF OwnValueOf(a) THEN a.props["valueOf"].ret ELSE a
CallToString(a) == IF OwnToString(a) THEN a.props["toString"].ret ELSE Str("[object Object]")

\* deepEqual of fast-deep-equal. Error objects have the constructor Error,
\* Object.prototype's valueOf and Error.prototype's toString ("Error: " +
\* message); the objects of the model are literals: their constructor is Object.
RECURSIVE deepEqual(_, _)
deepEqual(a, b) ==
    IF strictEq(a, b) THEN TRUE
    ELSE IF IsObject(a) /\ IsObject(b)
    THEN IF a.k # b.k THEN FALSE
         ELSE IF a.k = "array"
         THEN /\ Len(a.items) = Len(b.items)
              /\ \A i \in 1..Len(a.items) : deepEqual(a.items[i], b.items[i])
         ELSE IF a.k = "regexp" THEN a.source = b.source /\ a.flags = b.flags
         ELSE IF a.k = "error" THEN a.message = b.message
         ELSE IF OwnValueOf(a) THEN strictEq(CallValueOf(a), CallValueOf(b))
         ELSE IF OwnToString(a) THEN strictEq(CallToString(a), CallToString(b))
         ELSE /\ Cardinality(DOMAIN a.props) = Cardinality(DOMAIN b.props)
              /\ \A key \in DOMAIN a.props : key \in DOMAIN b.props
              /\ \A key \in DOMAIN a.props : deepEqual(a.props[key], b.props[key])
    ELSE a.k = "nan" /\ b.k = "nan"

\* expected.test(caught.message) for the patterns of the model: /boom/
RegExpTest(re, s) == re.source = s

\* JSON.stringify of a primitive in the place of an array item or of a
\* property ("": the property is left out)
JSONItem(v) ==
    CASE v.k = "undefined" -> "undefined"
      [] v.k \in {"null", "nan"} -> "null"
      [] v.k = "num" -> ToString(v.v)
      [] v.k = "bool" -> (IF v.v THEN "true" ELSE "false")
      [] v.k = "str" -> "\"" \o v.v \o "\""
      [] v.k = "fun" -> ""
      [] OTHER -> "{}"
RECURSIVE JSONItems(_)
JSONItems(items) ==
    IF items = <<>> THEN ""
    ELSE "  " \o (IF Head(items).k = "fun" THEN "null" ELSE JSONItem(Head(items)))
         \o (IF Tail(items) = <<>> THEN "\n" ELSE ",\n" \o JSONItems(Tail(items)))

\* JSON.stringify(thing, replacer, '  ') || 'undefined', then the sentinel
\* "_tz_undefined_tz_" replaced by the bare token undefined. Of the objects
\* of the model only the property x is written: the others are functions.
toJSON(thing) ==
    CASE thing.k = "fun" -> "undefined"
      [] thing.k = "array" ->
            IF thing.items = <<>> THEN "[]" ELSE "[\n" \o JSONItems(thing.items) \o "]"
      [] thing.k = "object" ->
            IF "x" \in DOMAIN thing.props
            THEN "{\n  \"x\": " \o JSONItem(thing.props["x"]) \o "\n}"
            ELSE "{}"
      [] OTHER -> JSONItem(thing)

\* ---------------------------------------------------------------- call sites
\* Error().stack as the host renders it: a head line and frames. m1, m2 are the
\* groups AT_REGEX captures from the line ("" where it captures nothing; a
\* line AT_REGEX does not match has m2 = ""); file is m2 without :line:col.
LibFile == "/lib/index.js"
UserFile == "/test/a.js"
Frame(fn, file, pos) ==
    [text |-> "    at " \o fn \o " (" \o file \o pos \o ")",
     m1 |-> fn, m2 |-> file \o pos, file |-> file]
HeadLine(desc) == [text |-> "Error: " \o desc, m1 |-> "", m2 |-> "", file |-> ""]
\* the stack of an Error constructed inside Test._assert, called from a test
LibStack(desc) ==
    << HeadLine(desc), Frame("Test._assert", LibFile, ":311:27"),
       Frame("fn", UserFile, ":7:5") >>
\* the stack of an Error the user's code constructed
UserStack(desc) == << HeadLine(desc), Frame("fn", UserFile, ":3:9") >>

\* getTapZeroFileName: the file of the first frame AT_REGEX matches in a stack
\* captured inside the library ("" when none matches)
RECURSIVE FirstMatchFile(_)
FirstMatchFile(st) ==
    IF st = <<>> THEN ""
    ELSE IF Head(st).m2 # "" THEN Head(st).file ELSE FirstMatchFile(Tail(st))
getTapZeroFileName == FirstMatchFile(Tail(LibStack("temp")))

\* findAtLineFromError: the first matching frame outside the library's file
RECURSIVE findAtLine(_, _)
findAtLine(st, dir) ==
    IF st = <<>> THEN ""
    ELSE IF Head(st).m2 = "" \/ Head(st).file = dir THEN findAtLine(Tail(st), dir)
    ELSE (IF Head(st).m1 = "" THEN "<anonymous>" ELSE Head(st).m1)
             \o " (" \o Head(st).m2 \o ")"
findAtLineFromError(st) == findAtLine(st, getTapZeroFileName)

\* ---------------------------------------------------------------- lines
\* A line handed to report: its text, and (history) what emitted it: by is
\* the Test (0: the runner), kind tells result lines from the rest.
Line(text, kind, by) == [text |-> text, kind |-> kind, by |-> by]

\* `${prefix} ${id} ${description}`
ResultText(pass, id, description) ==
    (IF pass THEN "ok" ELSE "not ok") \o " " \o id \o " " \o description

RECURSIVE StackLines(_, _)
StackLines(st, by) ==
    IF st = <<>> THEN <<>>
    ELSE <<Line("      " \o Head(st).text, "diag", by)>> \o StackLines(Tail(st), by)

\* the YAML block of a failing assertion (index.ts 311-346)
DiagBlock(actual, expected, description, operator, by) ==
    LET isErr == actual.k = "error"
        st == IF isErr THEN UserStack(actual.message) ELSE LibStack(description)
        ac0 == IF isErr THEN Str(actual.message) ELSE actual
        ex == toJSON(expected)
        ac == toJSON(ac0)
        long == (IF Len(ex) > Len(ac) THEN Len(ex) ELSE Len(ac)) > 65
        at == findAtLineFromError(LibStack(description))
    IN  << Line("  ---", "diag", by),
           Line("    operator: " \o operator, "diag", by),
           Line("    expected: " \o (IF long THEN "|-\n      " ELSE "") \o ex, "diag", by),
           Line("    actual:   " \o (IF long THEN "|-\n      " ELSE "") \o ac, "diag", by) >>
        \o (IF at # "" THEN <<Line("    at:       " \o at, "diag", by)>> ELSE <<>>)
        \o <<Line("    stack:    |-", "diag", by)>>
        \o StackLines(st, by)
        \o <<Line("  ...", "diag", by)>>

\* ---------------------------------------------------------------- Test
\* new Test(name, fn, runner). runner: whether a runner was given. Two fields
\* are not the code's: phase is where Test.run() stands ("pending", "running",
\* "returned", "threw"), and (history) planFirst tells that plan() was called
\* exactly once, before any assertion call, calls counts the assertion calls
\* on the Test that returned.
Test(name, runner, strict) ==
    [name |-> name, _planned |-> NULL, _actual |-> NULL,
     pass |-> 0, fail |-> 0, done |-> FALSE,
     strict |-> runner /\ strict, runner |-> runner,
     phase |-> "pending", planFirst |-> FALSE, calls |-> 0]

\* What a call on a Test gives back: the error it raised ("" if it returned),
\* the Test and the runner's _id after it, and the lines it reported.
Outcome(err, t, id, lines) == [err |-> err, t |-> t, id |-> id, lines |-> lines]

ErrAfterDone == "assertion occurred after test was finished"
ErrMorePlanned == "More tests than planned"
ErrEndedBefore == "Test ended before the planned number"
ErrMsgRequired == "tapzero msg required"
ErrThrowsExpected == "t.throws() not implemented for expected"
ErrAddCompleted == "Cannot add() a test case after tests completed."
ErrOnFinish == "onFinish() expects a function"
ErrUser == "error thrown by the test function"

\* nextId that steps by two
nextId_skips(id) == id + 2

\* TestRunner.nextId: ++this._id
nextId(id) == id + 1

\* _assert whose plan check is off by one
_assert_plan_off_by_one(t, id, pass, actual, expected, description, operator, me) ==
    IF t.done THEN Outcome(ErrAfterDone, t, id, <<>>)
    ELSE
    LET t1 == IF t._planned # NULL
              THEN [t EXCEPT !._actual = (IF t._actual = NULL THEN 0 ELSE t._actual) + 1]
              ELSE t
    IN  IF t1._planned # NULL /\ t1._actual > t1._planned + 1
        THEN Outcome(ErrMorePlanned, t1, id, <<>>)
        ELSE IF ~t1.runner THEN Outcome("", [t1 EXCEPT !.calls = @ + 1], id, <<>>)
        ELSE LET id1 == nextId(id)
                 res == Line(ResultText(pass, ToString(id1), description), "result", me)
             IN  IF pass
                 THEN Outcome("", [t1 EXCEPT !.pass = @ + 1, !.calls = @ + 1], id1, <<res>>)
                 ELSE Outcome("", [t1 EXCEPT !.fail = @ + 1, !.calls = @ + 1], id1,
                              <<res>> \o DiagBlock(actual, expected, description, operator, me))

\* _assert without its check of done
_assert_after_done(t, id, pass, actual, expected, description, operator, me) ==
    LET t1 == IF t._planned # NULL
              THEN [t EXCEPT !._actual = (IF t._actual = NULL THEN 0 ELSE t._actual) + 1]
              ELSE t
    IN  IF t1._planned # NULL /\ t1._actual > t1._planned
        THEN Outcome(ErrMorePlanned, t1, id, <<>>)
        ELSE IF ~t1.runner THEN Outcome("", [t1 EXCEPT !.calls = @ + 1], id, <<>>)
        ELSE LET id1 == nextId(id)
                 res == Line(ResultText(pass, ToString(id1), description), "result", me)
             IN  IF pass
                 THEN Outcome("", [t1 EXCEPT !.pass = @ + 1, !.calls = @ + 1], id1, <<res>>)
                 ELSE Outcome("", [t1 EXCEPT !.fail = @ + 1, !.calls = @ + 1], id1,
                              <<res>> \o DiagBlock(actual, expected, description, operator, me))

\* _assert that reports a failure without its diagnostic block
_assert_no_diag(t, id, pass, actual, expected, description, operator, me) ==
    IF t.done THEN Outcome(ErrAfterDone, t, id, <<>>)
    ELSE
    LET t1 == IF t._planned # NULL
              THEN [t EXCEPT !._actual = (IF t._actual = NULL THEN 0 ELSE t._actual) + 1]
              ELSE t
    IN  IF t1._planned # NULL /\ t1._actual > t1._planned
        THEN Outcome(ErrMorePlanned, t1, id, <<>>)
        ELSE IF ~t1.runner THEN Outcome("", [t1 EXCEPT !.calls = @ + 1], id, <<>>)
        ELSE LET id1 == nextId(id)
                 res == Line(ResultText(pass, ToString(id1), description), "result", me)
             IN  IF pass
                 THEN Outcome("", [t1 EXCEPT !.pass = @ + 1, !.calls = @ + 1], id1, <<res>>)
                 ELSE Outcome("", [t1 EXCEPT !.fail = @ + 1, !.calls = @ + 1], id1,
                              <<res>>)

\* Test._assert
_assert(t, id, pass, actual, expected, description, operator, me) ==
    IF t.done THEN Outcome(ErrAfterDone, t, id, <<>>)
    ELSE
    LET t1 == IF t._planned # NULL
              THEN [t EXCEPT !._actual = (IF t._actual = NULL THEN 0 ELSE t._actual) + 1]
              ELSE t
    IN  IF t1._planned # NULL /\ t1._actual > t1._planned
        THEN Outcome(ErrMorePlanned, t1, id, <<>>)
        ELSE IF ~t1.runner THEN Outcome("", [t1 EXCEPT !.calls = @ + 1], id, <<>>)
        ELSE LET id1 == nextId(id)
                 res == Line(ResultText(pass, ToString(id1), description), "result", me)
             IN  IF pass
                 THEN Outcome("", [t1 EXCEPT !.pass = @ + 1, !.calls = @ + 1], id1, <<res>>)
                 ELSE Outcome("", [t1 EXCEPT !.fail = @ + 1, !.calls = @ + 1], id1,
                              <<res>> \o DiagBlock(actual, expected, description, operator, me))

Or(msg, default) == IF msg # "" THEN msg ELSE default

\* The assertion vocabulary. c is the call: [m: the method, a: actual,
\* e: expected, f: what the function given to throws() does].
\* Test.deepEqual
t_deepEqual(t, id, c, msg, me) ==
    IF t.strict /\ msg = "" THEN Outcome(ErrMsgRequired, t, id, <<>>)
    ELSE _assert(t, id, deepEqual(c.a, c.e), c.a, c.e, Or(msg, "should be equivalent"), "deepEqual", me)
\* Test.notDeepEqual
t_notDeepEqual(t, id, c, msg, me) ==
    IF t.strict /\ msg = "" THEN Outcome(ErrMsgRequired, t, id, <<>>)
    ELSE _assert(t, id, ~deepEqual(c.a, c.e), c.a, c.e, Or(msg, "should not be equivalent"), "notDeepEqual", me)
\* Test.equal
t_equal(t, id, c, msg, me) ==
    IF t.strict /\ msg = "" THEN Outcome(ErrMsgRequired, t, id, <<>>)
    ELSE _assert(t, id, looseEq(c.a, c.e), c.a, c.e, Or(msg, "should be equal"), "equal", me)
\* Test.notEqual
t_notEqual(t, id, c, msg, me) ==
    IF t.strict /\ msg = "" THEN Outcome(ErrMsgRequired, t, id, <<>>)
    ELSE _assert(t, id, ~looseEq(c.a, c.e), c.a, c.e, Or(msg, "should not be equal"), "notEqual", me)
\* Test.fail
t_fail(t, id, c, msg, me) ==
    IF t.strict /\ msg = "" THEN Outcome(ErrMsgRequired, t, id, <<>>)
    ELSE _assert(t, id, FALSE, Str("fail called"), Str("fail not called"), Or(msg, "fail called"), "fail", me)
\* ok() that does not ask for a msg when strict
t_ok_unchecked(t, id, c, msg, me) ==
    _assert(t, id, truthy(c.a), c.a, Str("truthy value"), Or(msg, "should be truthy"), "ok", me)

\* Test.ok
t_ok(t, id, c, msg, me) ==
    IF t.strict /\ msg = "" THEN Outcome(ErrMsgRequired, t, id, <<>>)
    ELSE _assert(t, id, truthy(c.a), c.a, Str("truthy value"), Or(msg, "should be truthy"), "ok", me)
\* Test.ifError; String(err) of an Error is "Error: " + message
t_ifError(t, id, c, msg, me) ==
    IF t.strict /\ msg = "" THEN Outcome(ErrMsgRequired, t, id, <<>>)
    ELSE _assert(t, id, ~truthy(c.a), c.a, Str("no error"),
                 Or(msg, IF c.a.k = "error" THEN "Error: " \o c.a.message ELSE c.a.k), "ifError", me)
\* fn() of throws(fn, ...): what the function given to throws() does. It
\* throws an error of its own ("throw"), returns ("return"), or calls an
\* assertion of the same Test, without a msg ("t.ok(true)") or with one.
FnAsserts == "t.ok(true)"
FnAssertsMsg == "t.ok(true, 'msg')"
fn(t, id, f, me) ==
    IF f = "throw" THEN Outcome("boom", t, id, <<>>)
    ELSE IF f = FnAsserts THEN t_ok(t, id, [m |-> "ok", a |-> Bool(TRUE)], "", me)
    ELSE IF f = FnAssertsMsg THEN t_ok(t, id, [m |-> "ok", a |-> Bool(TRUE)], "msg", me)
    ELSE Outcome("", t, id, <<>>)

\* Test.throws; a string given as expected is the message. The try/catch
\* around fn() catches whatever fn() throws, an error of the library too.
t_throws(t, id, c, msg, me) ==
    LET message == IF c.e.k = "str" THEN c.e.v ELSE msg
        expected == IF c.e.k = "str" THEN Undefined ELSE c.e
        called == fn(t, id, c.f, me)
        caught == IF called.err # "" THEN Err(called.err) ELSE Null
        pass == IF expected.k = "regexp"
                THEN caught.k = "error" /\ RegExpTest(expected, caught.message)
                ELSE caught.k = "error"
    IN  IF t.strict /\ message = "" THEN Outcome(ErrMsgRequired, t, id, <<>>)
        ELSE IF expected.k # "regexp" /\ truthy(expected)
        THEN Outcome(ErrThrowsExpected, called.t, called.id, called.lines)
        ELSE LET o == _assert(called.t, called.id, pass, caught, expected,
                              Or(message, "show throw"), "throws", me)
             IN  [o EXCEPT !.lines = called.lines \o @]

Methods ==
    {"deepEqual", "notDeepEqual", "equal", "notEqual", "fail", "ok", "ifError", "throws"}

Invoke(t, id, c, msg, me) ==
    CASE c.m = "deepEqual" -> t_deepEqual(t, id, c, msg, me)
      [] c.m = "notDeepEqual" -> t_notDeepEqual(t, id, c, msg, me)
      [] c.m = "equal" -> t_equal(t, id, c, msg, me)
      [] c.m = "notEqual" -> t_notEqual(t, id, c, msg, me)
      [] c.m = "fail" -> t_fail(t, id, c, msg, me)
      [] c.m = "ok" -> t_ok(t, id, c, msg, me)
      [] c.m = "ifError" -> t_ifError(t, id, c, msg, me)
      [] c.m = "throws" -> t_throws(t, id, c, msg, me)

\* The calls the environment makes: every method with arguments that pass
\* and arguments that fail, throws() also with an expected value it does not
\* support and with its message in the place of expected.
Call(m, a, e, f) == [m |-> m, a |-> a, e |-> e, f |-> f]
Calls ==
    {Call(m, Num(1), e, "") : m \in {"deepEqual", "notDeepEqual"}, e \in {Num(1), Str("1")}}
    \cup {Call(m, Num(1), e, "") : m \in {"equal", "notEqual"}, e \in {Str("1"), Num(2)}}
    \cup {Call("ok", a, Undefined, "") : a \in {Bool(TRUE), Bool(FALSE)}}
    \cup {Call("fail", Undefined, Undefined, "")}
    \cup {Call("ifError", a, Undefined, "") : a \in {Undefined, Err("boom")}}
    \cup {Call("throws", Undefined, e, "throw") :
              e \in {Undefined, RegExp("boom"), RegExp("x"), Str("msg"), Num(1)}}
    \cup {Call("throws", Undefined, Undefined, f) : f \in {"return", FnAsserts, FnAssertsMsg}}
\* the msg arguments they are made with
MsgsFor(c) == IF c.m \in {"ok", "throws"} THEN Msgs ELSE {""}
\* the calls of the runs with several tests: one that passes, one that fails
RunCalls == {Call("ok", Bool(TRUE), Undefined, ""), Call("equal", Num(1), Num(2), "")}

\* Test.plan
t_plan(t, n) == [t EXCEPT !._planned = n]

\* Test.run up to the call of the test function: the '# name' comment
t_run_begin(t, me) ==
    Outcome("", [t EXCEPT !.phase = "running"], 0,
            IF t.runner THEN <<Line("# " \o t.name, "name", me)>> ELSE <<>>)

\* Test.run after the test function (and the promise it returned) finished
t_run_end(t) ==
    LET t1 == [t EXCEPT !.done = TRUE]
    IN  IF t1._planned # NULL /\ t1._planned > (IF t1._actual = NULL THEN 0 ELSE t1._actual)
        THEN Outcome(ErrEndedBefore, [t1 EXCEPT !.phase = "threw"], 0, <<>>)
        ELSE Outcome("", [t1 EXCEPT !.phase = "returned"], 0, <<>>)

\* ---------------------------------------------------------------- state
VARIABLES
    tests, onlyTests,    \* TestRunner: the two registries (indices into T)
    scheduled, _id, completed, strict, _onFinishCallback,
    T,                   \* every Test constructed so far, in construction order
    timers, runs,        \* setTimeout(run) calls made; run() invocations begun
    pc, ts, it,          \* run(): where it stands, the registry it iterates, the iterator
    total, success, fail,
    out,                 \* the lines handed to report, in order
    finished,            \* what run() did after the summary: callbacks, exit handlers
    last                 \* history: the error the latest step raised ("": none)

vars == << tests, onlyTests, scheduled, _id, completed, strict, _onFinishCallback,
           T, timers, runs, pc, ts, it, total, success, fail, out, finished, last >>

runnerFields == << tests, onlyTests, scheduled, _id, completed, strict, _onFinishCallback >>
runLocals == << pc, ts, it, total, success, fail >>

Callbacks == {1, 2}      \* functions given to onFinish; 0 is not a function
NoCallback == 0

Did(op, t, err) == err

\* new TestRunner(report)
Init ==
    /\ tests = <<>> /\ onlyTests = <<>>
    /\ scheduled = FALSE /\ _id = 0 /\ completed = FALSE /\ strict = FALSE
    /\ _onFinishCallback = NoCallback
    /\ T = <<>>
    /\ timers = 0 /\ runs = 0
    /\ pc = "idle" /\ ts = "none" /\ it = 0
    /\ total = 0 /\ success = 0 /\ fail = 0
    /\ out = <<>>
    /\ finished = <<>>
    /\ last = Did("new", 0, "")

\* add() that sets a timer at every call
add_always_schedules(name, only) ==
    IF completed
    THEN /\ last' = Did("add", 0, ErrAddCompleted)
         /\ UNCHANGED << runnerFields, T, timers, runs, runLocals, out, finished >>
    ELSE /\ T' = Append(T, Test(name, TRUE, strict))
         /\ IF only
            THEN onlyTests' = Append(onlyTests, Len(T) + 1) /\ tests' = tests
            ELSE tests' = Append(tests, Len(T) + 1) /\ onlyTests' = onlyTests
         /\ scheduled' = TRUE /\ timers' = timers + 1
         /\ last' = Did("add", Len(T) + 1, "")
         /\ UNCHANGED << _id, completed, strict, _onFinishCallback, runs, runLocals,
                         out, finished >>

\* add() without its check of completed
add_unchecked(name, only) ==
    /\ T' = Append(T, Test(name, TRUE, strict))
    /\ IF only
       THEN onlyTests' = Append(onlyTests, Len(T) + 1) /\ tests' = tests
       ELSE tests' = Append(tests, Len(T) + 1) /\ onlyTests' = onlyTests
    /\ IF ~scheduled
       THEN scheduled' = TRUE /\ timers' = timers + 1
       ELSE UNCHANGED << scheduled, timers >>
    /\ last' = Did("add", Len(T) + 1, "")
    /\ UNCHANGED << _id, completed, strict, _onFinishCallback, runs, runLocals,
                    out, finished >>

\* TestRunner.add
add(name, only) ==
    IF completed
    THEN /\ last' = Did("add", 0, ErrAddCompleted)
         /\ UNCHANGED << runnerFields, T, timers, runs, runLocals, out, finished >>
    ELSE /\ T' = Append(T, Test(name, TRUE, strict))
         /\ IF only
            THEN onlyTests' = Append(onlyTests, Len(T) + 1) /\ tests' = tests
            ELSE tests' = Append(tests, Len(T) + 1) /\ onlyTests' = onlyTests
         /\ IF ~scheduled
            THEN scheduled' = TRUE /\ timers' = timers + 1
            ELSE UNCHANGED << scheduled, timers >>
         /\ last' = Did("add", Len(T) + 1, "")
         /\ UNCHANGED << _id, completed, strict, _onFinishCallback, runs, runLocals,
                         out, finished >>

\* TestRunner.onFinish
onFinish(callback) ==
    /\ IF callback \in Callbacks
       THEN _onFinishCallback' = callback /\ last' = Did("onFinish", 0, "")
       ELSE _onFinishCallback' = _onFinishCallback /\ last' = Did("onFinish", 0, ErrOnFinish)
    /\ UNCHANGED << tests, onlyTests, scheduled, _id, completed, strict,
                    T, timers, runs, runLocals, out, finished >>

\* setStrict, on the runner
setStrict(b) ==
    /\ b # strict
    /\ strict' = b
    /\ last' = Did("setStrict", 0, "")
    /\ UNCHANGED << tests, onlyTests, scheduled, _id, completed, _onFinishCallback,
                    T, timers, runs, runLocals, out, finished >>

\* ---------------------------------------------------------------- run()
Registry(which) == IF which = "onlyTests" THEN onlyTests ELSE tests

\* a summary that ends with '# ok' whatever failed
Summary_always_ok(tot, suc, fl) ==
    << Line("", "blank", 0),
       Line("1.." \o ToString(tot), "plan", 0),
       Line("# tests " \o ToString(tot), "tests", 0),
       Line("# pass  " \o ToString(suc), "pass", 0) >>
    \o (IF fl # 0 THEN <<Line("# fail  " \o ToString(fl), "fail", 0)>> ELSE <<>>)
    \o <<Line("", "blank", 0), Line("# ok", "ok", 0)>>

\* the lines of run() after the loop (index.ts 103-112)
Summary(tot, suc, fl) ==
    << Line("", "blank", 0),
       Line("1.." \o ToString(tot), "plan", 0),
       Line("# tests " \o ToString(tot), "tests", 0),
       Line("# pass  " \o ToString(suc), "pass", 0) >>
    \o (IF fl # 0
        THEN <<Line("# fail  " \o ToString(fl), "fail", 0)>>
        ELSE <<Line("", "blank", 0), Line("# ok", "ok", 0)>>)

\* What run() does after the summary: the call of the callback with
\* {total, success, fail}, or process.on('exit', handler) with the closure's
\* fail. (history) at, done: the lines reported and completed at that moment.
Finished(kind, cb, tot, suc, fl, at, done) ==
    [kind |-> kind, cb |-> cb, total |-> tot, success |-> suc, fail |-> fl,
     at |-> at, completed |-> done]

\* run() that calls the callback before completed = true and the summary
Complete_callback_first(tot, suc, fl, pre) ==
    /\ completed' = TRUE
    /\ out' = out \o pre \o Summary(tot, suc, fl)
    /\ pc' = "completed"
    /\ total' = tot /\ success' = suc /\ fail' = fl
    /\ IF _onFinishCallback # NoCallback
       THEN finished' = Append(finished, Finished("callback", _onFinishCallback, tot, suc, fl,
                                                  Len(out \o pre), completed))
       ELSE \E host \in BOOLEAN :
               finished' = IF host
                           THEN Append(finished, Finished("exitHandler", NoCallback, tot, suc, fl,
                                                          Len(out'), completed'))
                           ELSE finished
    /\ UNCHANGED << T, it >>

\* run() from `completed = true` to its end (index.ts 101-133)
Complete(tot, suc, fl, pre) ==
    /\ completed' = TRUE
    /\ out' = out \o pre \o Summary(tot, suc, fl)
    /\ pc' = "completed"
    /\ total' = tot /\ success' = suc /\ fail' = fl
    /\ IF _onFinishCallback # NoCallback
       THEN finished' = Append(finished, Finished("callback", _onFinishCallback, tot, suc, fl,
                                                  Len(out'), completed'))
       ELSE \E host \in BOOLEAN :
               finished' = IF host
                           THEN Append(finished, Finished("exitHandler", NoCallback, tot, suc, fl,
                                                          Len(out'), completed'))
                           ELSE finished
    /\ UNCHANGED << T, it >>

\* one turn of `for (const test of ts)`: the iterator steps to index i of the
\* registry as it is now; if there is a test, test.run() is called and runs up
\* to the call of the test function, else the loop is left
Iterate(which, i, tot, suc, fl, pre) ==
    LET arr == Registry(which)
    IN  IF i <= Len(arr)
        THEN LET o == t_run_begin(T[arr[i]], arr[i])
             IN  /\ T' = [T EXCEPT ![arr[i]] = o.t]
                 /\ out' = out \o pre \o o.lines
                 /\ pc' = "await" /\ it' = i
                 /\ total' = tot /\ success' = suc /\ fail' = fl
                 /\ UNCHANGED << completed, finished >>
        ELSE Complete(tot, suc, fl, pre)

\* run() that iterates the tests registry whatever onlyTests holds
RunStart_ignores_only ==
    /\ timers > runs
    /\ runs' = runs + 1
    /\ ts' = "tests"
    /\ Iterate(ts', 1, 0, 0, 0, <<Line("TAP version 13", "version", 0)>>)
    /\ last' = Did("run", 0, "")
    /\ UNCHANGED << tests, onlyTests, scheduled, _id, strict, _onFinishCallback, timers >>

\* the setTimeout callback of add(): run() from its start to its first await
RunStart ==
    /\ timers > runs
    /\ runs' = runs + 1
    /\ ts' = IF Len(onlyTests) > 0 THEN "onlyTests" ELSE "tests"
    /\ Iterate(ts', 1, 0, 0, 0, <<Line("TAP version 13", "version", 0)>>)
    /\ last' = Did("run", 0, "")
    /\ UNCHANGED << tests, onlyTests, scheduled, _id, strict, _onFinishCallback, timers >>

\* the test awaited by run()
Cur == Registry(ts)[it]

\* run() that goes round the loop without awaiting test.run()
RunNext_no_await ==
    /\ pc = "await"
    /\ Iterate(ts, it + 1, total + T[Cur].fail + T[Cur].pass,
               success + T[Cur].pass, fail + T[Cur].fail, <<>>)
    /\ last' = Did("run", 0, "")
    /\ UNCHANGED << tests, onlyTests, scheduled, _id, strict, _onFinishCallback,
                    timers, runs, ts >>

\* run() whose loop steps over the test after the one it awaited
RunNext_skips ==
    /\ pc = "await" /\ T[Cur].phase = "returned"
    /\ Iterate(ts, it + 2, total + T[Cur].fail + T[Cur].pass,
               success + T[Cur].pass, fail + T[Cur].fail, <<>>)
    /\ last' = Did("run", 0, "")
    /\ UNCHANGED << tests, onlyTests, scheduled, _id, strict, _onFinishCallback,
                    timers, runs, ts >>

\* run() resumes with the result of test.run() and goes round the loop
RunNext ==
    /\ pc = "await" /\ T[Cur].phase = "returned"
    /\ Iterate(ts, it + 1, total + T[Cur].fail + T[Cur].pass,
               success + T[Cur].pass, fail + T[Cur].fail, <<>>)
    /\ last' = Did("run", 0, "")
    /\ UNCHANGED << tests, onlyTests, scheduled, _id, strict, _onFinishCallback,
                    timers, runs, ts >>

\* the error test.run() rejected with: done is set only on the way to the
\* 'ended before' throw, an error of the test function leaves it unset
Thrown(t) == IF t.done THEN ErrEndedBefore ELSE ErrUser

\* run() that catches the rejection of test.run() and goes on with the loop
RunReject_continues ==
    /\ pc = "await" /\ T[Cur].phase = "threw"
    /\ Iterate(ts, it + 1, total, success, fail, <<>>)
    /\ last' = Did("run", 0, "")
    /\ UNCHANGED << tests, onlyTests, scheduled, _id, strict, _onFinishCallback,
                    timers, runs, ts >>

\* test.run() rejected: run() rejects
RunReject ==
    /\ pc = "await" /\ T[Cur].phase = "threw"
    /\ pc' = "rejected"
    /\ last' = Did("run", 0, Thrown(T[Cur]))
    /\ UNCHANGED << runnerFields, T, timers, runs, ts, it, total, success, fail,
                    out, finished >>

\* ---------------------------------------------------------------- the test function
\* the test function of t returned, or the promise it returned resolved
TestEnd(t) ==
    /\ T[t].phase = "running"
    /\ LET o == t_run_end(T[t])
       IN  T' = [T EXCEPT ![t] = o.t] /\ last' = Did("end", t, o.err)
    /\ UNCHANGED << runnerFields, timers, runs, runLocals, out, finished >>

\* the test function of t threw, or the promise it returned rejected
TestThrow(t) ==
    /\ T[t].phase = "running"
    /\ T' = [T EXCEPT ![t].phase = "threw"]
    /\ last' = Did("throw", t, ErrUser)
    /\ UNCHANGED << runnerFields, timers, runs, runLocals, out, finished >>

\* the assertion calls on t that returned so far: its result lines
MadeIn(o, t) == Cardinality({i \in 1..Len(o) : o[i].kind = "result" /\ o[i].by = t})
Made(t) == MadeIn(out, t)

\* The code of a test may use its Test from the moment its function is called:
\* in the function, or later from a timer or a promise it left behind.
Started(t) == T[t].phase # "pending"

\* t.plan(n)
\* (after done _planned is never read again: no plan() is modelled there)
Plan(t, n) ==
    /\ Started(t) /\ ~T[t].done
    /\ T' = [T EXCEPT ![t] = [t_plan(@, n) EXCEPT
                                 !.planFirst = T[t]._planned = NULL /\ Made(t) = 0
                                               /\ T[t]._actual = NULL]]
    /\ last' = Did("plan", t, "")
    /\ UNCHANGED << runnerFields, timers, runs, runLocals, out, finished >>

\* t.comment(msg)
Comment(t, msg) ==
    /\ Started(t)
    /\ out' = out \o (IF T[t].runner THEN <<Line("# " \o msg, "comment", t)>> ELSE <<>>)
    /\ last' = Did("comment", t, "")
    /\ UNCHANGED << runnerFields, T, timers, runs, runLocals, finished >>

\* one of the eight assertion methods called on t
Assertion(t, c, msg) ==
    /\ Started(t)
    /\ LET o == Invoke(T[t], _id, c, msg, t)
       IN  /\ o.id <= MaxAsserts /\ o.t.calls <= MaxAsserts
           /\ o.t._actual <= MaxPlan + 1
           /\ T' = [T EXCEPT ![t] = o.t]
           /\ _id' = o.id
           /\ out' = out \o o.lines
           /\ last' = Did(c.m, t, o.err)
    /\ UNCHANGED << tests, onlyTests, scheduled, completed, strict, _onFinishCallback,
                    timers, runs, runLocals, finished >>

\* the environment calls comment() once in a behaviour
NoCommentYet == \A i \in 1..Len(out) : out[i].kind # "comment"

\* The runner: up to MaxTests tests, whose functions assert (RunCalls),
\* comment, finish or throw, and leave work behind that does the same.
Next ==
    \/ \E name \in Names, only \in BOOLEAN :
          (completed \/ Len(T) < MaxTests) /\ add(name, only)
    \/ \E callback \in Callbacks \cup {NoCallback} : onFinish(callback)
    \/ RunStart
    \/ RunNext
    \/ RunReject
    \/ \E t \in 1..Len(T) : TestEnd(t)
    \/ \E t \in 1..Len(T) : TestThrow(t)
    \/ \E t \in 1..Len(T), msg \in Msgs \ {""} : NoCommentYet /\ Comment(t, msg)
    \/ \E t \in 1..Len(T), c \in RunCalls : Assertion(t, c, "")

Spec == Init /\ [][Next]_vars

\* One test and its plan: a runner with a single Test, whose function (and
\* the work it leaves behind) calls plan() and asserts (RunCalls) in any order.
NextPlan ==
    \/ \E name \in Names, only \in BOOLEAN :
          (completed \/ T = <<>>) /\ add(name, only)
    \/ RunStart
    \/ RunNext
    \/ RunReject
    \/ \E t \in 1..Len(T) : TestEnd(t)
    \/ \E t \in 1..Len(T) : TestThrow(t)
    \/ \E t \in 1..Len(T), n \in 0..MaxPlan : Plan(t, n)
    \/ \E t \in 1..Len(T), c \in RunCalls : Assertion(t, c, "")

SpecPlan == Init /\ [][NextPlan]_vars

\* One test and the vocabulary: a runner with a single Test, whose function
\* (and the work it leaves behind) uses every assertion method (Calls), with
\* and without a msg, under either setting of strict.
NextVocab ==
    \/ \E name \in Names, only \in BOOLEAN :
          (completed \/ T = <<>>) /\ add(name, only)
    \/ \E b \in BOOLEAN : setStrict(b)
    \/ RunStart
    \/ RunNext
    \/ RunReject
    \/ \E t \in 1..Len(T) : TestEnd(t)
    \/ \E t \in 1..Len(T) : TestThrow(t)
    \/ \E t \in 1..Len(T), c \in Calls : \E msg \in MsgsFor(c) :
          Assertion(t, c, msg) /\ _id' <= MaxVocab

SpecVocab == Init /\ [][NextVocab]_vars

\* ---------------------------------------------------------------- the process
\* The process terminates with status code: 'exit' is emitted once and the
\* handlers installed by run() are called with code; process.exit(1) in a
\* handler makes 1 the status. The record kept: code, whether exit(1) was
\* requested, and the status the process ends with.
ExitCodes == {0, 1, 2}
Exited == \E i \in 1..Len(finished) : finished[i].kind = "exit"
Handlers == SelectSeq(finished, LAMBDA f : f.kind = "exitHandler")
HandlerRequests(h, code) == ~(code # 0) /\ h.fail # 0
ExitRecord(code, req) ==
    [kind |-> "exit", code |-> code, requested |-> req, status |-> IF req THEN 1 ELSE code]

\* an exit handler that does not look at the status
ProcessExit_any_code(code) ==
    /\ ~Exited
    /\ finished' = Append(finished,
          ExitRecord(code, \E i \in 1..Len(Handlers) : Handlers[i].fail # 0))
    /\ last' = Did("exit", 0, "")
    /\ UNCHANGED << runnerFields, T, timers, runs, runLocals, out >>

\* the 'exit' event of the process (index.ts 123-132)
ProcessExit(code) ==
    /\ ~Exited
    /\ finished' = Append(finished,
          ExitRecord(code, \E i \in 1..Len(Handlers) : HandlerRequests(Handlers[i], code)))
    /\ last' = Did("exit", 0, "")
    /\ UNCHANGED << runnerFields, T, timers, runs, runLocals, out >>

\* The runner in its process: tests that assert and finish, onFinish(), and
\* the termination of the process, after which nothing runs.
NextExit ==
    \/ ~Exited /\ \E name \in Names, only \in BOOLEAN :
          (completed \/ Len(T) < MaxTests) /\ add(name, only)
    \/ ~Exited /\ \E callback \in Callbacks \cup {NoCallback} : onFinish(callback)
    \/ ~Exited /\ RunStart
    \/ ~Exited /\ RunNext
    \/ ~Exited /\ \E t \in 1..Len(T) : TestEnd(t)
    \/ ~Exited /\ \E t \in 1..Len(T), c \in RunCalls : Assertion(t, c, "")
    \/ \E code \in ExitCodes : ProcessExit(code)

SpecExit == Init /\ [][NextExit]_vars

\* new Test(name, fn): a Test of no runner, constructed by the user's code
NewTest(name) ==
    /\ T' = Append(T, Test(name, FALSE, strict))
    /\ last' = Did("new", Len(T) + 1, "")
    /\ UNCHANGED << runnerFields, timers, runs, runLocals, out, finished >>

\* t.run() called by the user's code on a Test of no runner, up to the call
\* of the test function
RunTest(t) ==
    /\ ~T[t].runner /\ T[t].phase = "pending"
    /\ LET o == t_run_begin(T[t], t)
       IN  T' = [T EXCEPT ![t] = o.t] /\ out' = out \o o.lines
    /\ last' = Did("run", t, "")
    /\ UNCHANGED << runnerFields, timers, runs, runLocals, finished >>

\* Tests of the runner and Tests of no runner, run by the user's code.
NextAlone ==
    \/ \E name \in Names, only \in BOOLEAN :
          (completed \/ Len(T) < MaxTests) /\ add(name, only)
    \/ \E name \in Names : Len(T) < MaxTests /\ NewTest(name)
    \/ RunStart
    \/ RunNext
    \/ \E t \in 1..Len(T) : RunTest(t)
    \/ \E t \in 1..Len(T) : TestEnd(t)
    \/ \E t \in 1..Len(T), c \in RunCalls : Assertion(t, c, "")

SpecAlone == Init /\ [][NextAlone]_vars

\* The values t.deepEqual() is called with: primitives (NaN and null among
\* them), regular expressions, arrays, object literals with and without a
\* valueOf or a toString of their own, and an Error; those with an identity
\* twice, as two objects of the same shape.
Refs == {1, 2}
EqProps ==
    { NoProps, "x" :> Num(1), "x" :> NaN,
      "toString" :> Fun(Str("[object Object]"), 1), "toString" :> Fun(Str("s"), 1),
      "valueOf" :> Fun(Num(1), 1) }
EqValues ==
    {Undefined, Null, NaN, Num(1), Str("[object Object]"), Bool(TRUE), Err("boom")}
    \cup {RegExpF("a", "", r) : r \in Refs} \cup {RegExpF("a", "g", 1)}
    \cup {Obj(props, r) : props \in EqProps, r \in Refs}
    \cup {Arr(items, r) : items \in {<<>>, <<Num(1)>>, <<NaN>>}, r \in Refs}

\* One test that calls t.deepEqual(a, b) on the values above.
NextEq ==
    \/ \E name \in Names, only \in BOOLEAN :
          (completed \/ T = <<>>) /\ add(name, only)
    \/ RunStart
    \/ RunNext
    \/ \E t \in 1..Len(T) : TestEnd(t)
    \/ \E t \in 1..Len(T), a \in EqValues, b \in EqValues :
          Assertion(t, Call("deepEqual", a, b, ""), "") /\ _id' <= MaxVocab

SpecEq == Init /\ [][NextEq]_vars

\* Test functions that assert and terminate, none raising and none with a
\* plan: the timer of add() fires, every test function finishes, and run()
\* resumes when the test it awaits has finished.
NextTerminating ==
    \/ \E name \in Names, only \in BOOLEAN :
          (completed \/ Len(T) < MaxTests) /\ add(name, only)
    \/ RunStart
    \/ RunNext
    \/ \E t \in 1..Len(T) : TestEnd(t)
    \/ \E t \in 1..Len(T), c \in RunCalls : Assertion(t, c, "")

LiveRun ==
    /\ Init /\ [][NextTerminating]_vars
    /\ WF_vars(RunStart) /\ WF_vars(RunNext)
    /\ WF_vars(\E t \in 1..Len(T) : TestEnd(t))

\* The deferred tick of add() is a timer of the host's event loop: it fires.
LiveSpec == Spec /\ WF_vars(RunStart)

\* ---------------------------------------------------------------- properties
IsOnly(t) == \E i \in 1..Len(onlyTests) : onlyTests[i] = t
Texts(o) == [i \in 1..Len(o) |-> o[i].text]

\* C1: one deferred run() is ever scheduled: the first add() turns scheduled
\* from false to true and sets the timer, no later add() sets another,
\* scheduled never returns to false, and run() is invoked by the timer once:
\* never twice, and eventually once add() has been called.
C1_State ==
    /\ timers <= 1 /\ runs <= timers
    /\ scheduled <=> timers = 1
    /\ T # <<>> => scheduled
    /\ pc # "idle" <=> runs = 1
C1_Step ==
    /\ scheduled => scheduled'
    /\ timers' # timers => ~scheduled /\ scheduled' /\ T = <<>> /\ Len(T') = 1
    /\ Len(T') # Len(T) /\ T # <<>> => timers' = timers
C1_OneScheduledRun ==
    /\ [](C1_State)
    /\ [][C1_Step]_vars
    /\ (T # <<>>) ~> (runs = 1)
C1_Witness == Len(T) >= 2 /\ scheduled /\ timers = 1 /\ runs = 1 /\ pc = "completed"


\* C2: add() called when completed is true raises and leaves tests, onlyTests,
\* scheduled and _id (and the Tests) as they were; add() called when completed
\* is false never raises, whether run() has started or not, and appends
\* exactly one Test, to onlyTests if exclusive and to tests if not.
C2_Step ==
    /\ last' = ErrAddCompleted =>
          completed /\ UNCHANGED << tests, onlyTests, scheduled, _id, T >>
    /\ completed => T' = T /\ tests' = tests /\ onlyTests' = onlyTests
    /\ \A name \in Names, only \in BOOLEAN :
          add(name, only) /\ ~completed =>
             /\ last' = ""
             /\ Len(T') = Len(T) + 1
             /\ Len(tests') + Len(onlyTests') = Len(tests) + Len(onlyTests) + 1
             /\ IF only
                THEN onlyTests' = Append(onlyTests, Len(T')) /\ tests' = tests
                ELSE tests' = Append(tests, Len(T')) /\ onlyTests' = onlyTests
    /\ T' # T /\ Len(T') = Len(T) => tests' = tests /\ onlyTests' = onlyTests
    /\ Len(T') # Len(T) => ~completed /\ last' = "" /\ Len(T') = Len(T) + 1
C2_AddUntilCompleted == [][C2_Step]_vars
\* add() raised after completion, and an add() made while run() was awaiting
\* the first test had succeeded (the second Test was executed by that run)
C2_Witness ==
    /\ last = ErrAddCompleted /\ completed
    /\ Len(T) = 2 /\ \A t \in 1..2 : T[t].done
    /\ Len(out) >= 4 /\ out[3].kind = "result" /\ out[3].by = 1

\* C3: when run() starts with an exclusive test registered, it invokes the
\* functions of the exclusive tests only, in their registration order; the
\* totals of the summary count the exclusive tests' assertions only; the
\* non-exclusive tests stay in tests.
RECURSIVE SumOf(_, _)
SumOf(reg, field) ==
    IF reg = <<>> THEN 0
    ELSE (IF field = "pass" THEN T[Head(reg)].pass ELSE T[Head(reg)].fail)
         + SumOf(Tail(reg), field)
C3_Start ==
    runs' # runs /\ onlyTests # <<>> =>
       /\ ts' = "onlyTests"
       /\ Started(onlyTests[1])' /\ \A t \in 1..Len(T) : Started(t)' => t = onlyTests[1]
C3_Run ==
    ts = "onlyTests" =>
       /\ \A t \in 1..Len(T) : Started(t) => IsOnly(t)
       /\ \A t \in 1..Len(T) : ~IsOnly(t) =>
             /\ T[t].pass = 0 /\ T[t].fail = 0 /\ ~T[t].done
             /\ \E i \in 1..Len(tests) : tests[i] = t
       /\ \A i \in 1..Len(onlyTests) : Started(onlyTests[i]) <=> i <= it
       /\ \A i, j \in 1..Len(onlyTests) : i < j => onlyTests[i] < onlyTests[j]
       /\ pc = "completed" =>
             /\ success = SumOf(onlyTests, "pass")
             /\ fail = SumOf(onlyTests, "fail")
             /\ total = success + fail
             /\ \E i \in 1..Len(out) :
                   /\ out[i].kind = "plan"
                   /\ out[i].text = "1.." \o ToString(SumOf(onlyTests, "pass") + SumOf(onlyTests, "fail"))
                   /\ out[i + 2].text = "# pass  " \o ToString(SumOf(onlyTests, "pass"))
C3_OnlyExclusiveRun == [](C3_Run) /\ [][C3_Start]_vars
\* a run with a non-exclusive test registered before the exclusive one
C3_Witness ==
    /\ ts = "onlyTests" /\ pc = "completed" /\ Len(tests) >= 1 /\ total >= 1
    /\ tests[1] < onlyTests[1]

\* C4: whenever onlyTests is non-empty, no non-exclusive test begins to
\* execute, whatever the interleaving of add() with the run, and the run
\* executes every exclusive test: none is left when it has completed.
C4_Step ==
    onlyTests # <<>> =>
       \A t \in 1..Len(T) : T[t].phase = "pending" /\ T'[t].phase # "pending" => IsOnly(t)
C4_NoNonExclusiveStarts ==
    /\ [][C4_Step]_vars
    /\ [](pc = "completed" => \A t \in 1..Len(T) : IsOnly(t) => T[t].done)


\* C5: for a test that called plan(n) before any assertion, each of the first
\* n assertion calls returns and reports its result, and a call made once n
\* results were reported raises 'More tests than planned' before anything is
\* reported: no line, _id and the {pass, fail} tally as they were.
C5_Step ==
    \A t \in 1..Len(T) :
       T[t].planFirst /\ ~T[t].done /\ T'[t]._actual # T[t]._actual =>
          IF Made(t) < T[t]._planned
          THEN /\ last' = ""
               /\ _id' = _id + 1
               /\ MadeIn(out', t) = Made(t) + 1
               /\ T'[t].pass + T'[t].fail = T[t].pass + T[t].fail + 1
          ELSE /\ last' = ErrMorePlanned
               /\ out' = out /\ _id' = _id
               /\ T'[t].pass = T[t].pass /\ T'[t].fail = T[t].fail
C5_PlanFirst == [][C5_Step]_vars
\* plan(n), n assertions reported, and the call after them raised
C5_Witness ==
    \E t \in 1..Len(T) :
       /\ T[t].planFirst /\ T[t]._planned >= 1 /\ ~T[t].done
       /\ Made(t) = T[t]._planned /\ last = ErrMorePlanned

\* C6: whatever the order of plan() and assertion calls, an assertion call
\* never takes the number of assertions a test has made above its declared
\* plan: the call that would do so raises instead of reporting a result.
C6_Step ==
    \A t \in 1..Len(T) :
       T'[t]._planned # NULL /\ MadeIn(out', t) > Made(t) =>
          MadeIn(out', t) <= T'[t]._planned
C6_NeverExceedsPlan == [][C6_Step]_vars

\* C7: when the function of a test has finished, Test.run() has set done and
\* raised 'ended before the planned number' if a plan was declared and fewer
\* assertions than planned were made; it has returned the tally if the plan
\* was met exactly or no plan was declared.
C7_EndAgainstPlan ==
    \A t \in 1..Len(T) :
       T[t].done =>
          /\ T[t]._planned # NULL /\ Made(t) < T[t]._planned => T[t].phase = "threw"
          /\ T[t]._planned = NULL \/ Made(t) = T[t]._planned => T[t].phase = "returned"

\* C8: done goes from false to true once, when Test.run() ends, and never
\* back; every assertion method called on a done test, with any arguments,
\* raises, reports no line and leaves the tally and _id as they were.
C8_Step ==
    \A t \in 1..Len(T) :
       /\ T[t].done => T'[t].done
       /\ ~T[t].done /\ T'[t].done =>
             T[t].phase = "running" /\ T'[t].phase \in {"returned", "threw"}
       /\ T[t].done => T'[t] = T[t] /\ MadeIn(out', t) = Made(t)
       /\ T[t].done /\ (\E c \in Calls : \E msg \in MsgsFor(c) : Assertion(t, c, msg)) =>
             last' # "" /\ out' = out /\ _id' = _id
C8_Calls ==
    \A t \in 1..Len(T) :
       T[t].done =>
          \A c \in Calls, msg \in Msgs :
             LET o == Invoke(T[t], _id, c, msg, t)
             IN  /\ o.err # "" /\ o.lines = <<>> /\ o.id = _id
                 /\ o.t.pass = T[t].pass /\ o.t.fail = T[t].fail
C8_DoneOnce == [](C8_Calls) /\ [][C8_Step]_vars
\* a test that asserted, finished, and was then asserted on
C8_Witness ==
    \E t \in 1..Len(T) :
       T[t].done /\ last = ErrAfterDone /\ T[t].pass + T[t].fail >= 1

\* C9: at most one test is between the start of its Test.run() and done;
\* the tests of the registry start in order, each after the one before it is
\* done; the k-th 'ok'/'not ok' line carries id k; every result line (and
\* diagnostic line) comes from the test whose '# name' line is the latest
\* before it, whatever work finished tests left behind.
IsNameLine(l) == l.kind = "name"
IsResultLine(l) == l.kind = "result"
Descriptions == {"should be truthy", "should be equal"}
C9_OneAtATime ==
    /\ Cardinality({t \in 1..Len(T) : Started(t) /\ ~T[t].done}) <= 1
    /\ LET reg == Registry(ts)
           names == SelectSeq(out, IsNameLine)
           results == SelectSeq(out, IsResultLine)
       IN  /\ it <= Len(reg)
           /\ \A t \in 1..Len(T) : Started(t) <=> \E i \in 1..it : reg[i] = t
           /\ \A i \in 1..Len(reg) : i < it => T[reg[i]].done
           /\ [k \in 1..Len(names) |-> names[k].by] = SubSeq(reg, 1, it)
           /\ Len(results) = _id
           /\ \A k \in 1..Len(results) :
                 \E p \in BOOLEAN, d \in Descriptions :
                    results[k].text = ResultText(p, ToString(k), d)
           /\ \A i \in 1..Len(out) :
                 out[i].kind \in {"result", "diag"} =>
                    \E n \in 1..(i - 1) :
                       /\ out[n].kind = "name" /\ out[n].by = out[i].by
                       /\ \A m \in (n + 1)..(i - 1) : out[m].kind # "name"
\* two tests ran, and the first was asserted on again while the second ran
C9_Witness ==
    /\ Len(T) = 2 /\ it = 2 /\ T[1].done /\ Started(2)
    /\ last = ErrAfterDone /\ Made(1) = 1 /\ Made(2) = 1

\* C10: when run() completes, the sink has received, in this order:
\* 'TAP version 13'; for each executed test its '# name' line followed by its
\* assertion lines; a blank line; '1..total'; '# tests total';
\* '# pass  success'; then '# fail  fail' if fail > 0, else a blank line and
\* '# ok', never both. (As amended: the '# msg' lines of comment() calls
\* aside, which stand wherever they were called.) One passing test 't1' with
\* a single ok(true) and no comment gives exactly the nine lines.
IsNotComment(l) == l.kind # "comment"
IsOk(l) ==
    /\ l.kind = "result"
    /\ \E k \in 1.._id, d \in Descriptions : l.text = ResultText(TRUE, ToString(k), d)
IsNotOk(l) ==
    /\ l.kind = "result"
    /\ \E k \in 1.._id, d \in Descriptions : l.text = ResultText(FALSE, ToString(k), d)
Tail4(tot, suc) ==
    << "", "1.." \o ToString(tot), "# tests " \o ToString(tot), "# pass  " \o ToString(suc) >>
C10_Shape(o) ==
    LET nres == Len(SelectSeq(o, IsResultLine))
        nok == Len(SelectSeq(o, IsOk))
        nnot == Len(SelectSeq(o, IsNotOk))
        end == Tail4(nres, nok)
                  \o (IF nnot > 0 THEN << "# fail  " \o ToString(nnot) >> ELSE << "", "# ok" >>)
        body == Len(o) - Len(end)
        names == SelectSeq(o, IsNameLine)
    IN  /\ nres = nok + nnot /\ total = nres /\ success = nok /\ fail = nnot
        /\ body >= 1
        /\ o[1].text = "TAP version 13"
        /\ SubSeq(Texts(o), body + 1, Len(o)) = end
        /\ \A i \in 2..body :
              /\ o[i].kind \in {"name", "result", "diag"}
              /\ o[i].kind = "name" => o[i].text = "# " \o T[o[i].by].name
              /\ o[i].kind # "name" =>
                    \E n \in 2..(i - 1) :
                       /\ o[n].kind = "name" /\ o[n].by = o[i].by
                       /\ \A m \in (n + 1)..(i - 1) : o[m].kind # "name"
        /\ [k \in 1..Len(names) |-> names[k].by] = Registry(ts)
        /\ \A i \in 1..Len(o) : o[i].text = "# ok" => \A j \in 1..Len(o) : o[j].kind # "fail"
C10_NineLines ==
    Len(Registry(ts)) = 1 /\ T[Registry(ts)[1]].name = "t1" /\ NoCommentYet
    /\ T[Registry(ts)[1]].pass = 1 /\ T[Registry(ts)[1]].fail = 0 =>
       Texts(out) = << "TAP version 13", "# t1", "ok 1 should be truthy", "",
                       "1..1", "# tests 1", "# pass  1", "", "# ok" >>
C10_Output ==
    pc = "completed" => C10_Shape(SelectSeq(out, IsNotComment)) /\ C10_NineLines
\* the claim as stated: when run() completes the sink has received these
\* lines and nothing else
C10_NothingElse ==
    [][pc # "completed" /\ pc' = "completed" => (C10_Shape(out) /\ C10_NineLines)']_vars
\* a run of two tests, one assertion failed, and a comment() among the lines
C10_Witness ==
    /\ pc = "completed" /\ Len(Registry(ts)) = 2 /\ fail >= 1 /\ success >= 1
    /\ ~NoCommentYet


\* C11: the runner requests exit status 1 only when the process terminates
\* with status 0 and the completed run had a failed assertion; a non-zero
\* status is left as it is; nothing is requested when fail = 0; and when a
\* callback is registered as the run completes, no exit handler is
\* installed and nothing is ever requested.
Exits == SelectSeq(finished, LAMBDA f : f.kind = "exit")
Callbacked == \E i \in 1..Len(finished) : finished[i].kind = "callback"
C11_Exit(e) ==
    /\ e.requested => e.code = 0 /\ completed /\ fail > 0 /\ e.status = 1
    /\ e.code # 0 => ~e.requested /\ e.status = e.code
    /\ fail = 0 \/ ~completed => ~e.requested /\ e.status = e.code
    /\ e.code = 0 /\ Handlers # <<>> /\ fail > 0 => e.requested
C11_State ==
    /\ \A i \in 1..Len(Exits) : C11_Exit(Exits[i])
    /\ Callbacked => Handlers = <<>> /\ \A i \in 1..Len(Exits) : ~Exits[i].requested
    /\ Len(Handlers) <= 1
C11_Step ==
    pc # "completed" /\ pc' = "completed" /\ _onFinishCallback # NoCallback =>
       Handlers' = <<>> /\ Callbacked'
C11_ExitStatus == [](C11_State) /\ [][C11_Step]_vars
\* the claim as stated: nothing is requested when a callback was registered
\* with onFinish(), whenever that was
C11_NoRequestWithCallback ==
    /\ [](C11_State) /\ [][C11_Step]_vars
    /\ [](\A i \in 1..Len(Exits) : _onFinishCallback # NoCallback => ~Exits[i].requested)
\* status 1 was requested at an exit with status 0 after a failed assertion
C11_Witness ==
    /\ Len(Exits) = 1 /\ Exits[1].requested /\ Exits[1].code = 0 /\ Exits[1].status = 1
    /\ fail >= 1 /\ success >= 1

\* C12: onFinish(x) with a non-function raises and leaves the callback as it
\* was; onFinish(cb) with a function replaces it; when the run completes the
\* callback registered last is called exactly once, after completed is true
\* and after the last line of the summary, with the numbers of the summary.
C12_Step ==
    /\ \A x \in Callbacks \cup {NoCallback} :
          onFinish(x) =>
             IF x \in Callbacks
             THEN last' = "" /\ _onFinishCallback' = x
             ELSE last' = ErrOnFinish /\ _onFinishCallback' = _onFinishCallback
    /\ _onFinishCallback' # _onFinishCallback =>
          \E x \in Callbacks : onFinish(x)
    /\ finished' # finished => pc # "completed" /\ pc' = "completed"
    /\ pc # "completed" /\ pc' = "completed" /\ _onFinishCallback # NoCallback =>
          /\ Len(finished') = Len(finished) + 1
          /\ LET f == finished'[Len(finished')]
                 n == Len(out')
             IN  /\ f.kind = "callback" /\ f.cb = _onFinishCallback
                 /\ f.completed /\ completed'
                 /\ f.at = n
                 /\ out'[n].text \in {"# ok", "# fail  " \o ToString(f.fail)}
                 /\ out'[n].text = "# ok" <=> f.fail = 0
                 /\ \E i \in 1..n :
                       /\ out'[i].text = "1.." \o ToString(f.total)
                       /\ out'[i + 1].text = "# tests " \o ToString(f.total)
                       /\ out'[i + 2].text = "# pass  " \o ToString(f.success)
                       /\ i + 2 = n - (IF f.fail = 0 THEN 2 ELSE 1)
C12_State ==
    Cardinality({i \in 1..Len(finished) : finished[i].kind = "callback"}) <= 1
C12_CallbackOnce == [](C12_State) /\ [][C12_Step]_vars
\* a second onFinish() replaced the first callback and the run, with a
\* failed assertion, called it
C12_Witness ==
    /\ Callbacked /\ finished[1].cb = 2 /\ finished[1].fail >= 1 /\ finished[1].success >= 1
    /\ last = ErrOnFinish


\* C13: when a test function raises, Test.run() is left without setting done,
\* run() rejects with that error, no later test of the registry is started,
\* no blank line, '1..total' or summary comment is emitted, completed stays
\* false and the callback is not called.
Raised(t) == T[t].phase = "threw" /\ ~T[t].done
SummaryKinds == {"blank", "plan", "tests", "pass", "fail", "ok"}
C13_State ==
    \A t \in 1..Len(T) :
       Raised(t) =>
          /\ pc \in {"await", "rejected"} /\ Cur = t
          /\ ~completed /\ finished = <<>>
          /\ \A i \in 1..Len(out) : out[i].kind \notin SummaryKinds
          /\ \A i \in 1..Len(Registry(ts)) : i > it => T[Registry(ts)[i]].phase = "pending"
C13_Step ==
    /\ \A t \in 1..Len(T) :
          /\ Raised(t) => Raised(t)'
          /\ TestThrow(t) => Raised(t)' /\ last' = ErrUser
    /\ pc = "await" /\ Raised(Cur) /\ pc' # pc =>
          pc' = "rejected" /\ last' = ErrUser /\ out' = out /\ T' = T
    /\ pc = "rejected" => pc' = "rejected"
C13_Rejects == [](C13_State) /\ [][C13_Step]_vars
\* the first of two tests raised after an assertion, run() rejected, a
\* callback was registered and the second test is still pending
C13_Witness ==
    /\ pc = "rejected" /\ last = ErrUser /\ Len(Registry(ts)) = 2
    /\ Raised(Registry(ts)[1]) /\ Made(Registry(ts)[1]) = 1
    /\ _onFinishCallback # NoCallback


\* C14: an assertion whose condition is false, on a test of a runner that is
\* not done, within its plan and with a description when strict, does not
\* raise: it reports 'not ok <id> <description>' and right after it the
\* diagnostic block, from '  ---' to '  ...', with the operator, expected and
\* actual lines, and no other result line; fail grows by one, pass stays, and
\* the test goes on: its next assertions are executed and reported.
FailingCalls ==
    { Call("deepEqual", Num(1), Str("1"), ""), Call("notDeepEqual", Num(1), Num(1), ""),
      Call("equal", Num(1), Num(2), ""), Call("notEqual", Num(1), Str("1"), ""),
      Call("ok", Bool(FALSE), Undefined, ""), Call("fail", Undefined, Undefined, ""),
      Call("ifError", Err("boom"), Undefined, ""),
      Call("throws", Undefined, RegExp("x"), "throw"),
      Call("throws", Undefined, Undefined, "return"),
      Call("throws", Undefined, Str("msg"), "return") }
DefaultDescription(c) ==
    CASE c.m = "deepEqual" -> "should be equivalent"
      [] c.m = "notDeepEqual" -> "should not be equivalent"
      [] c.m = "equal" -> "should be equal"
      [] c.m = "notEqual" -> "should not be equal"
      [] c.m = "ok" -> "should be truthy"
      [] c.m = "fail" -> "fail called"
      [] c.m = "ifError" -> "Error: boom"
      [] c.m = "throws" -> "show throw"
DescriptionOf(c, msg) ==
    IF c.m = "throws" /\ c.e.k = "str" THEN c.e.v
    ELSE IF msg # "" THEN msg ELSE DefaultDescription(c)
Described(c, msg) == msg # "" \/ (c.m = "throws" /\ c.e.k = "str")
Rendered ==
    { "undefined", "null", "1", "2", "\"1\"", "true", "false", "{}", "\"boom\"",
      "\"truthy value\"", "\"no error\"", "\"fail not called\"", "\"fail called\"" }
WithinPlan(t) == t._planned # NULL => (IF t._actual = NULL THEN 0 ELSE t._actual) < t._planned
C14_Call(t0, id, c, msg, me) ==
    LET o == Invoke(t0, id, c, msg, me)
        n == Len(o.lines)
    IN  /\ o.err = ""
        /\ o.id = id + 1
        /\ n >= 7
        /\ o.lines[1] = Line("not ok " \o ToString(id + 1) \o " " \o DescriptionOf(c, msg),
                             "result", me)
        /\ o.lines[2].text = "  ---" /\ o.lines[n].text = "  ..."
        /\ o.lines[3].text = "    operator: " \o c.m
        /\ \E x \in Rendered : o.lines[4].text = "    expected: " \o x
        /\ \E x \in Rendered : o.lines[5].text = "    actual:   " \o x
        /\ \A i \in 2..n : o.lines[i].kind = "diag" /\ o.lines[i].by = me
        /\ \A i \in 3..(n - 1) : o.lines[i].text \notin {"  ---", "  ..."}
        /\ o.t.fail = t0.fail + 1 /\ o.t.pass = t0.pass
        /\ ~o.t.done /\ o.t.phase = t0.phase
C14_State ==
    \A t \in 1..Len(T) :
       Started(t) /\ ~T[t].done =>
          \A c \in FailingCalls, msg \in Msgs, b \in BOOLEAN :
             LET t0 == [T[t] EXCEPT !.strict = b]
             IN  (b => Described(c, msg)) /\ WithinPlan(t0) => C14_Call(t0, _id, c, msg, t)
C14_Step ==
    \A t \in 1..Len(T) :
       T'[t].fail # T[t].fail =>
          /\ WithinPlan(T[t])
          /\ last' = "" /\ T'[t].fail = T[t].fail + 1 /\ T'[t].pass = T[t].pass
          /\ ~T'[t].done /\ T'[t].phase = T[t].phase
          /\ \E c \in FailingCalls :
                /\ Assertion(t, c, "")
                /\ out' = out \o Invoke(T[t], _id, c, "", t).lines
                /\ C14_Call(T[t], _id, c, "", t)
C14_FailureReported == [](C14_State) /\ [][C14_Step]_vars
\* a failed assertion was reported with its block and the next assertion of
\* the same test was executed and reported after it
C14_Witness ==
    \E t \in 1..Len(T) :
       /\ T[t].fail = 1 /\ T[t].pass = 1 /\ ~T[t].done
       /\ \E i \in 1..Len(out) :
             /\ out[i].text = "not ok 1 should be equal" /\ out[i + 1].text = "  ---"
             /\ out[Len(out)].text = "ok 2 should be truthy"
             /\ out[Len(out) - 1].text = "  ..."


\* C15: a usage fault raised by a library operation (assertion after done,
\* plan exceeded, msg missing when strict, expected not supported by throws,
\* add() after completion, onFinish() of a non-function) reaches the caller of
\* that operation: the library never catches it and never reports 'ok' or
\* 'not ok' for it, also when the operation is an assertion called inside
\* the function given to throws().
UsageFaults ==
    {ErrAfterDone, ErrMorePlanned, ErrMsgRequired, ErrThrowsExpected, ErrAddCompleted, ErrOnFinish}
C15_Step ==
    /\ \A t \in 1..Len(T), c \in Calls, msg \in Msgs :
          Assertion(t, c, msg) /\ c.f \notin {FnAsserts, FnAssertsMsg} /\ last' # "" =>
             last' \in UsageFaults /\ out' = out /\ _id' = _id
    /\ \A t \in 1..Len(T), c \in Calls, msg \in Msgs :
          /\ Assertion(t, c, msg) /\ c.f = FnAsserts
          /\ ~(T[t].strict /\ msg = "")
          /\ fn(T[t], _id, c.f, t).err \in UsageFaults
          => last' = fn(T[t], _id, c.f, t).err /\ out' = out /\ _id' = _id
    /\ \A name \in Names, only \in BOOLEAN :
          add(name, only) /\ completed => last' = ErrAddCompleted /\ out' = out
C15_FaultsPropagate == [][C15_Step]_vars


\* C16: deepEqual is reflexive and symmetric: t.deepEqual(a, a) passes for
\* every value a, and t.deepEqual(a, b) passes exactly when t.deepEqual(b, a)
\* would, for primitives (NaN, null), arrays, regular expressions, object
\* literals and objects with a valueOf or a toString of their own.
C16_Step ==
    \A t \in 1..Len(T), a \in EqValues, b \in EqValues :
       Assertion(t, Call("deepEqual", a, b, ""), "") /\ last' = "" =>
          /\ T'[t].pass > T[t].pass <=> deepEqual(b, a)
          /\ a = b => T'[t].pass > T[t].pass
C16_ReflexiveSymmetric == [][C16_Step]_vars


\* C17: for every Test, of a runner or of none, each assertion call that
\* returns adds one to exactly one of pass and fail, so the tally Test.run()
\* returns has pass + fail = the number of assertion calls that returned.
C17_Step ==
    \A t \in 1..Len(T) :
       T'[t].calls # T[t].calls =>
          /\ T'[t].calls = T[t].calls + 1
          /\ \/ T'[t].pass = T[t].pass + 1 /\ T'[t].fail = T[t].fail
             \/ T'[t].pass = T[t].pass /\ T'[t].fail = T[t].fail + 1
C17_TallyCountsCalls ==
    /\ [][C17_Step]_vars
    /\ [](\A t \in 1..Len(T) : T[t].phase = "returned" => T[t].pass + T[t].fail = T[t].calls)


\* C18: when every test function terminates without raising and no plan is
\* violated, the run completes after the first add(): completed becomes true
\* and stays true, the summary is emitted once, and every test appended to
\* the selected registry before completion, during the run too, has been
\* executed once, in insertion order.
C18_Completed ==
    completed =>
       /\ pc = "completed"
       /\ Cardinality({i \in 1..Len(out) : out[i].kind = "plan"}) = 1
       /\ Cardinality({i \in 1..Len(out) : out[i].kind = "tests"}) = 1
       /\ LET names == SelectSeq(out, IsNameLine)
          IN  [k \in 1..Len(names) |-> names[k].by] = Registry(ts)
       /\ \A i \in 1..Len(Registry(ts)) : T[Registry(ts)[i]].phase = "returned"
C18_Step ==
    /\ completed => completed' /\ UNCHANGED << out, T, tests, onlyTests >>
    /\ runs' # runs => ts' = (IF onlyTests # <<>> THEN "onlyTests" ELSE "tests")
    /\ runs' = runs => ts' = ts
    /\ ~completed => \A i \in 1..Len(out) : out[i].kind \notin SummaryKinds
C18_RunCompletes ==
    /\ [](C18_Completed) /\ [][C18_Step]_vars
    /\ (T # <<>>) ~> completed
\* a run of two tests of the selected registry, executed in order, completed
C18_Witness ==
    /\ completed /\ Len(Registry(ts)) = 2 /\ total = 2
    /\ \E i \in 1..Len(out) :
          /\ out[i].kind = "result" /\ out[i].by = Registry(ts)[1]
          /\ out[i + 1].kind = "name" /\ out[i + 1].by = Registry(ts)[2]
    /\ Len(tests) + Len(onlyTests) = 2


\* C19: the strict flag of a Test is the runner's strict flag at the moment
\* add() constructed it and never changes, whatever setStrict() does later;
\* on a strict Test an assertion call without a description raises before any
\* effect: no line, _id, the tally and _actual as they were, the function
\* given to throws() not invoked; on a Test that is not strict the missing
\* description never raises.
C19_Calls ==
    \A t \in 1..Len(T), c \in Calls, msg \in Msgs, n \in {NULL, MaxPlan} :
       LET t0 == [T[t] EXCEPT !._planned = n]
           o == Invoke(t0, _id, c, msg, t)
       IN  ~Described(c, msg) =>
              IF t0.strict
              THEN o.err = ErrMsgRequired /\ o.t = t0 /\ o.id = _id /\ o.lines = <<>>
              ELSE o.err # ErrMsgRequired
C19_Step ==
    /\ \A t \in 1..Len(T) : T'[t].strict = T[t].strict
    /\ Len(T') > Len(T) => T'[Len(T')].strict = strict
    /\ last' = ErrMsgRequired =>
          /\ UNCHANGED << T, out, _id >>
          /\ \E t \in 1..Len(T) : T[t].strict
C19_StrictAtConstruction == [](C19_Calls) /\ [][C19_Step]_vars
\* a Test constructed strict refused a call without description after the
\* runner's flag was set back, having reported a described assertion before
C19_Witness ==
    \E t \in 1..Len(T) :
       T[t].strict /\ ~strict /\ last = ErrMsgRequired /\ Made(t) = 1 /\ ~T[t].done


\* C20: _id equals the number of 'ok'/'not ok' lines emitted so far and the
\* sum of pass + fail over the Tests of the runner; it never decreases; when
\* the run has completed, the total of the '1..total' line equals
\* success + fail and the id of the last result line (0 when there is none).
C20_State ==
    LET results == SelectSeq(out, IsResultLine)
        all == tests \o onlyTests
    IN  /\ _id = Len(results)
        /\ _id = SumOf(all, "pass") + SumOf(all, "fail")
        /\ pc = "completed" =>
              /\ total = success + fail /\ total = _id
              /\ \E i \in 1..Len(out) :
                    /\ out[i].kind = "plan" /\ out[i].text = "1.." \o ToString(total)
                    /\ \A j \in 1..Len(out) : out[j].kind = "plan" => j = i
              /\ IF results = <<>> THEN total = 0
                 ELSE \E p \in BOOLEAN, d \in Descriptions :
                         results[Len(results)].text = ResultText(p, ToString(total), d)
C20_Step == _id' >= _id /\ _id' <= _id + 1
C20_IdCounts == [](C20_State) /\ [][C20_Step]_vars
\* a completed run of two tests with one assertion each, one of them failed
C20_Witness ==
    /\ pc = "completed" /\ total = 2 /\ fail = 1 /\ _id = 2
    /\ Len(Registry(ts)) = 2 /\ \A i \in 1..2 : Made(Registry(ts)[i]) = 1

====
